---- MODULE Spec2Model ----
(***************************************************************************)
(* State-machine model of the chat-completion reverse proxy in             *)
(* src/src/main.rs: handle_chat and its two relay paths,                   *)
(* handle_streaming_response and handle_normal_response, together with     *)
(* create_error_response.                                                  *)
(*                                                                         *)
(* One inbound request is a record of per-request variables indexed by the *)
(* request id.  What the caller sent (inBody) and what the upstream will   *)
(* do with the forwarded call (upstream) are the environment's inputs and  *)
(* are drawn in Init; the actions are the stages of the handler, cut at    *)
(* its suspension points (.send().await, .bytes().await, the polls of the  *)
(* streamed body).                                                         *)
(***************************************************************************)
EXTENDS Integers, Sequences, FiniteSets, TLC

\* ------------------------------------------------------------------ bounds
NumReqs == 2
MaxPairs == 3
MaxHdrs == 3
MaxChunks == 3

Reqs == 1..NumReqs

VARIABLES
    config,     \* AppState.config: model_url, model_key, default_model
    inBody,     \* per request: the raw bytes the caller posted
    inHeaders,  \* per request: the header lines the caller sent
    upstream,   \* per request: what the upstream does with the forwarded call
    pc,         \* per request: position in handle_chat
    payload,    \* per request: the serde_json::Value held by handle_chat
    is_stream,  \* per request: the flag computed at line 172
    headers,    \* per request: the outbound HeaderMap built at lines 175-191
    calls,      \* per request: the outbound POSTs issued, in order
    response,   \* per request: the reqwest::Response handed to the relay
    reply,      \* per request: the Response<Body> returned to the caller
    delivered,  \* per request: chunks of a streamed body polled so far
    caller,     \* per request: whether the caller's connection is still there
    conn,       \* per request: the upstream connection holding the response body
    trace       \* per request: the stages the handler went through

vars == <<config, inBody, inHeaders, upstream, pc, payload, is_stream, headers,
          calls, response, reply, delivered, caller, conn, trace>>

\* ------------------------------------------------------------- JSON values
\* A JSON value is [t, s, m]: its type, its text when it is a scalar (or an
\* opaque nested array/object), and its members when it is the top-level
\* object.  serde_json::Value of the same shape.
NoMembers == [k \in {} |-> 0]

Scalar(t, s) == [t |-> t, s |-> s, m |-> NoMembers]

JNull == Scalar("null", "null")
JTrue == Scalar("bool", "true")
JFalse == Scalar("bool", "false")
JNum(s) == Scalar("num", s)
JStr(s) == Scalar("str", s)
JArr == Scalar("arr", "[]")
JObjEmpty == Scalar("obj", "{}")

JObject(members) == [t |-> "obj", s |-> "", m |-> members]

\* A raw body is either bytes that are no JSON text, or a JSON text: a
\* scalar/array, or an object written as a sequence of "key": value pairs in
\* the order of the text (a key may be written more than once).
NotJson == [json |-> FALSE, t |-> "", s |-> "", pairs |-> <<>>]

TextOf(v) == [json |-> TRUE, t |-> v.t, s |-> v.s, pairs |-> <<>>]

ObjectText(pairs) == [json |-> TRUE, t |-> "obj", s |-> "", pairs |-> pairs]

KeysOf(pairs) == {pairs[i][1] : i \in 1..Len(pairs)}

\* serde_json keeps the last value written for a repeated key.
LastValue(pairs, k) ==
    LET I == {i \in 1..Len(pairs) : pairs[i][1] = k}
        last == CHOOSE i \in I : \A j \in I : j <= i
    IN  pairs[last][2]

\* serde_json::from_slice(&body): Ok(Value) or Err.
ParseOk(body) == body.json

from_slice(body) ==
    IF body.t = "obj"
    THEN JObject([k \in KeysOf(body.pairs) |-> LastValue(body.pairs, k)])
    ELSE Scalar(body.t, body.s)

\* serde_json::Map without preserve_order is a BTreeMap: to_vec writes the
\* members in key order, each key once.
KeyOrder == <<"messages", "model", "stream">>

to_vec(v) ==
    IF v.t = "obj"
    THEN LET present == SelectSeq(KeyOrder, LAMBDA k : k \in DOMAIN v.m)
         IN  ObjectText([i \in 1..Len(present) |-> <<present[i], v.m[present[i]]>>])
    ELSE TextOf(v)

\* A variant that forwards a fresh object holding the model alone.
insert_model_fresh(v, default_model) ==
    IF v.t = "obj"
    THEN JObject([k \in {"model"} |-> JStr(default_model)])
    ELSE v

\* payload.as_object_mut() + obj.insert("model", Value::String(default_model)):
\* only an object is rewritten, any other value is left as it is.
insert_model(v, default_model) ==
    IF v.t = "obj"
    THEN JObject([k \in (DOMAIN v.m) \cup {"model"} |->
                    IF k = "model" THEN JStr(default_model) ELSE v.m[k]])
    ELSE v

\* A variant that takes the text true for the boolean, whatever its type.
get_stream_truthy(v) ==
    IF v.t = "obj" /\ "stream" \in DOMAIN v.m
    THEN v.m["stream"].s = "true"
    ELSE FALSE

\* payload.get("stream").and_then(|v| v.as_bool()).unwrap_or(false)
get_stream(v) ==
    IF v.t = "obj" /\ "stream" \in DOMAIN v.m /\ v.m["stream"].t = "bool"
    THEN v.m["stream"].s = "true"
    ELSE FALSE

\* ---------------------------------------------------------------- headers
\* A HeaderMap is a sequence of <<name, value>> in iteration order: the names
\* in the order they were first inserted, the values of one name together.
LastIndexOf(map, name) ==
    LET I == {i \in 1..Len(map) : map[i][1] = name}
    IN  IF I = {} THEN 0 ELSE CHOOSE i \in I : \A j \in I : j <= i

\* HeaderMap::append, which http::response::Builder::header uses.
append(map, name, value) ==
    LET k == LastIndexOf(map, name)
    IN  IF k = 0
        THEN Append(map, <<name, value>>)
        ELSE SubSeq(map, 1, k) \o <<<<name, value>>>> \o SubSeq(map, k + 1, Len(map))

\* HeaderMap::insert: the name keeps its place and holds this one value.
insert(map, name, value) ==
    IF LastIndexOf(map, name) = 0
    THEN Append(map, <<name, value>>)
    ELSE LET first == CHOOSE i \in 1..Len(map) :
                        map[i][1] = name /\ \A j \in 1..(i - 1) : map[j][1] # name
             rest == SelectSeq(map, LAMBDA h : h[1] # name)
         IN  SubSeq(rest, 1, first - 1) \o <<<<name, value>>>>
                \o SubSeq(rest, first, Len(rest))

\* HeaderName is stored in lower case whatever the spelling on the wire.
as_str(name) ==
    CASE name = "Transfer-Encoding" -> "transfer-encoding"
      [] name = "TRANSFER-ENCODING" -> "transfer-encoding"
      [] name = "Connection" -> "connection"
      [] name = "Content-Type" -> "content-type"
      [] name = "Cache-Control" -> "cache-control"
      [] name = "X-Request-Id" -> "x-request-id"
      [] name = "Authorization" -> "authorization"
      [] OTHER -> name

\* response.headers(): the header lines of the upstream's answer as the
\* client parsed them into a HeaderMap.
RECURSIVE response_headers(_)
response_headers(wire) ==
    IF wire = <<>>
    THEN <<>>
    ELSE LET n == Len(wire)
         IN  append(response_headers(SubSeq(wire, 1, n - 1)),
                    as_str(wire[n][1]), wire[n][2])

\* A variant that compares the key with the names as they are usually spelled.
is_copied_titlecase(key) == key \notin {"Transfer-Encoding", "Connection"}

\* The filter of both copy loops.
is_copied(key) == key \notin {"transfer-encoding", "connection"}

\* for (key, value) in headers.iter() { if ... { builder.header(key, value) } }
RECURSIVE copy_headers(_, _)
copy_headers(builder, upHeaders) ==
    IF upHeaders = <<>>
    THEN builder
    ELSE LET n == Len(upHeaders)
             copied == copy_headers(builder, SubSeq(upHeaders, 1, n - 1))
         IN  IF is_copied(upHeaders[n][1])
             THEN append(copied, upHeaders[n][1], upHeaders[n][2])
             ELSE copied

\* The bytes of the credential strings of the model (String::as_bytes).
as_bytes(s) ==
    CASE s = "sk-1" -> <<115, 107, 45, 49>>
      [] s = "sk\n1" -> <<115, 107, 10, 49>>
      [] s = "Bearer " -> <<66, 101, 97, 114, 101, 114, 32>>
      [] OTHER -> <<>>

\* HeaderValue::from_str accepts a byte that is a tab or is 32 or more and
\* not DEL.
is_valid(b) == (b >= 32 /\ b # 127) \/ b = 9

from_str_ok(prefix, key) ==
    \A i \in 1..Len(as_bytes(prefix) \o as_bytes(key)) :
        is_valid((as_bytes(prefix) \o as_bytes(key))[i])

\* ---------------------------------------------------------------- replies
NoReply ==
    [sent |-> FALSE, status |-> 0, headers |-> <<>>, kind |-> "none",
     json |-> NoMembers, bytes |-> <<>>]

BAD_REQUEST == 400
INTERNAL_SERVER_ERROR == 500
BAD_GATEWAY == 502

\* A variant that answers every failure with 500, whatever the stage.
create_error_response_fixed_status(status, error_type, message) ==
    [sent |-> TRUE,
     status |-> INTERNAL_SERVER_ERROR,
     headers |-> append(<<>>, "content-type", "application/json"),
     kind |-> "error_json",
     json |-> [k \in {"error"} |-> [type |-> error_type, message |-> message]],
     bytes |-> <<>>]

\* A variant that passes the two texts in the other order.
create_error_response_swapped(status, error_type, message) ==
    [sent |-> TRUE,
     status |-> status,
     headers |-> append(<<>>, "content-type", "application/json"),
     kind |-> "error_json",
     json |-> [k \in {"error"} |-> [type |-> message, message |-> error_type]],
     bytes |-> <<>>]

\* create_error_response(status, error_type, message)
create_error_response(status, error_type, message) ==
    [sent |-> TRUE,
     status |-> status,
     headers |-> append(<<>>, "content-type", "application/json"),
     kind |-> "error_json",
     json |-> [k \in {"error"} |-> [type |-> error_type, message |-> message]],
     bytes |-> <<>>]

\* response.bytes(): the chunks of the body joined.
RECURSIVE concat(_)
concat(chunks) ==
    IF chunks = <<>> THEN <<>> ELSE Head(chunks) \o concat(Tail(chunks))

\* ----------------------------------------------------------------- inputs
SeqsUpTo(S, n) == UNION {[1..k -> S] : k \in 0..n}

\* The "key": value pairs a caller may write in an object body.
StreamValues == {JTrue, JFalse, JStr("true"), JNum("1"), JNull, JObjEmpty, JArr}

BodyPairs ==
    {<<"model", JStr("gpt-4")>>, <<"messages", JArr>>}
        \cup {<<"stream", v>> : v \in StreamValues}

NonObjectBodies ==
    {TextOf(v) : v \in {JNull, JTrue, JNum("1"), JStr("true"), JArr}}

AllBodies ==
    {NotJson} \cup NonObjectBodies
        \cup {ObjectText(p) : p \in SeqsUpTo(BodyPairs, MaxPairs)}

FewBodies ==
    {NotJson,
     ObjectText(<<<<"model", JStr("gpt-4")>>, <<"stream", JTrue>>>>),
     ObjectText(<<<<"model", JStr("gpt-4")>>, <<"messages", JArr>>>>)}

\* The header lines an upstream may answer with, as spelled on the wire.
WireHeaders ==
    {<<"Transfer-Encoding", "chunked">>, <<"TRANSFER-ENCODING", "gzip">>,
     <<"Connection", "close">>, <<"Content-Type", "application/json">>,
     <<"X-Request-Id", "abc">>}

Chunk1 == <<100>>
Chunk2 == <<97, 10>>

NoFail == 0 - 1

\* What the upstream does with one forwarded call: the call fails in
\* transport (ok = FALSE, errmsg the error's text), or it is answered with a
\* status, header lines and a body that arrives in chunks; fail_at = k means
\* the read of the body fails after k chunks, NoFail that it ends cleanly.
Unreachable(msg) ==
    [ok |-> FALSE, errmsg |-> msg, status |-> 0, wire |-> <<>>,
     chunks |-> <<>>, fail_at |-> NoFail]

Answer(status, wire, chunks, fail_at) ==
    [ok |-> TRUE, errmsg |-> "error decoding response body", status |-> status,
     wire |-> wire, chunks |-> chunks, fail_at |-> fail_at]

UpBodies ==
    {<<<<>>, NoFail>>, <<<<Chunk1, Chunk2>>, NoFail>>,
     <<<<Chunk1, Chunk2>>, 1>>, <<<<Chunk1>>, 0>>}

AllUpstreams ==
    {Unreachable("connection refused")}
        \cup {Answer(st, w, b[1], b[2]) :
                st \in {200, 500}, w \in SeqsUpTo(WireHeaders, MaxHdrs), b \in UpBodies}

\* Every way a body of up to n chunks may arrive: the chunks, and whether and
\* where the read fails.
ChunkScripts(n) ==
    {b \in SeqsUpTo({Chunk1, Chunk2}, n) \X ({NoFail} \cup 0..n) : b[2] <= Len(b[1])}

StreamWires ==
    {<<<<"Content-Type", "text/event-stream">>>>,
     <<<<"Content-Type", "application/json">>, <<"Connection", "close">>>>}

StreamUpstreams ==
    {Unreachable("connection refused")}
        \cup {Answer(st, w, b[1], b[2]) :
                st \in {200, 500}, w \in StreamWires, b \in ChunkScripts(MaxChunks)}

PairUpstreams ==
    {Unreachable("connection refused"),
     Answer(200, <<<<"Content-Type", "text/event-stream">>>>, <<Chunk1, Chunk2>>, NoFail),
     Answer(500, <<<<"Content-Type", "application/json">>>>, <<Chunk1>>, NoFail),
     Answer(200, <<<<"Content-Type", "application/json">>>>, <<Chunk1>>, 0)}

FewUpstreams ==
    {Unreachable("connection refused"), Unreachable("dns error")}
        \cup {Answer(200, <<<<"Content-Type", "application/json">>>>, b[1], b[2]) :
                b \in UpBodies}

\* The header lines a caller may send with its request.
NoCallerHeaders == <<>>

AllCallerHeaders ==
    {NoCallerHeaders,
     <<<<"Authorization", "Bearer caller-key">>, <<"Content-Type", "text/plain">>>>}

Credentials == {"sk-1", "sk\n1"}

Configs(models) ==
    [model_url : {"http://upstream/v1/chat/completions"},
     model_key : Credentials,
     default_model : models]

\* --------------------------------------------------------------- the state
NoBody == [json |-> FALSE, t |-> "none", s |-> "", pairs |-> <<>>]
NoUpstream == Unreachable("")
NoValue == Scalar("none", "")
NoResponse == [status |-> 0, headers |-> <<>>]

\* The requests of Live have arrived and are about to be handled; the others
\* never arrive.
InitWith(bodies, callerHeaders, upstreams, models, Live) ==
    /\ config \in Configs(models)
    /\ \E h \in [Live -> callerHeaders] :
          inHeaders = [r \in Reqs |-> IF r \in Live THEN h[r] ELSE <<>>]
    /\ \E b \in [Live -> bodies] :
          inBody = [r \in Reqs |-> IF r \in Live THEN b[r] ELSE NoBody]
    /\ \E u \in [Live -> upstreams] :
          upstream = [r \in Reqs |-> IF r \in Live THEN u[r] ELSE NoUpstream]
    /\ pc = [r \in Reqs |-> IF r \in Live THEN "start" ELSE "idle"]
    /\ payload = [r \in Reqs |-> NoValue]
    /\ is_stream = [r \in Reqs |-> FALSE]
    /\ headers = [r \in Reqs |-> <<>>]
    /\ calls = [r \in Reqs |-> <<>>]
    /\ response = [r \in Reqs |-> NoResponse]
    /\ reply = [r \in Reqs |-> NoReply]
    /\ delivered = [r \in Reqs |-> <<>>]
    /\ caller = [r \in Reqs |-> IF r \in Live THEN "connected" ELSE "none"]
    /\ conn = [r \in Reqs |-> "none"]
    /\ trace = [r \in Reqs |-> <<>>]

\* One request, every body a caller may post, a few upstream behaviours.
Init == InitWith(AllBodies, AllCallerHeaders, FewUpstreams, {"local-llm", "gpt-4"}, {1})

\* One request, a few bodies, every upstream answer.
InitRelay == InitWith(FewBodies, {NoCallerHeaders}, AllUpstreams, {"local-llm"}, {1})

\* One request, a few bodies, every way the upstream body may arrive.
InitStream ==
    InitWith(FewBodies, {NoCallerHeaders}, StreamUpstreams, {"local-llm"}, {1})

\* Every request in flight at once, a few bodies and upstream behaviours each.
InitPair ==
    InitWith(FewBodies, {NoCallerHeaders}, PairUpstreams, {"local-llm"}, Reqs)

\* --------------------------------------------------------------- handle_chat
Return(r, resp, stage) ==
    /\ reply' = [reply EXCEPT ![r] = resp]
    /\ pc' = [pc EXCEPT ![r] = "done"]
    /\ trace' = [trace EXCEPT ![r] = Append(@, stage)]

\* Lines 155-172: parse the body, rewrite the model, read the stream flag.
ParseBody(r) ==
    /\ pc[r] = "start"
    /\ IF ParseOk(inBody[r])
       THEN /\ payload' = [payload EXCEPT ![r] =
                              insert_model(from_slice(inBody[r]), config.default_model)]
            /\ is_stream' = [is_stream EXCEPT ![r] = get_stream(payload'[r])]
            /\ pc' = [pc EXCEPT ![r] = "parsed"]
            /\ trace' = [trace EXCEPT ![r] = Append(@, "parsed")]
            /\ UNCHANGED reply
       ELSE /\ Return(r, create_error_response(BAD_REQUEST, "Invalid request body",
                                               "Could not parse request body as JSON"),
                      "parse_error")
            /\ UNCHANGED <<payload, is_stream>>
    /\ UNCHANGED <<config, inBody, inHeaders, upstream, headers, calls, response, delivered>>
    /\ UNCHANGED <<caller, conn>>

\* A variant that passes the caller's header lines on and adds what is missing.
outbound_headers_passthrough(inbound, key) ==
    LET own == response_headers(inbound)
        typed == IF LastIndexOf(own, "content-type") = 0
                 THEN insert(own, "content-type", "application/json")
                 ELSE own
    IN  IF LastIndexOf(typed, "authorization") = 0
        THEN insert(typed, "authorization", "Bearer " \o key)
        ELSE typed

\* Lines 175-182: the outbound HeaderMap starts empty (the handler extracts
\* the body alone, the caller's header lines are not read) and gets the two
\* lines of the proxy.
outbound_headers(inbound, key) ==
    insert(insert(<<>>, "content-type", "application/json"),
           "authorization", "Bearer " \o key)

\* Lines 175-191: the outbound headers.  The `?` at line 190 hands back the
\* 500 response that map_err built.
BuildHeaders(r) ==
    /\ pc[r] = "parsed"
    /\ IF from_str_ok("Bearer ", config.model_key)
       THEN /\ headers' = [headers EXCEPT ![r] =
                              outbound_headers(inHeaders[r], config.model_key)]
            /\ pc' = [pc EXCEPT ![r] = "built"]
            /\ trace' = [trace EXCEPT ![r] = Append(@, "headers")]
            /\ UNCHANGED reply
       ELSE /\ Return(r, create_error_response(INTERNAL_SERVER_ERROR,
                                               "Invalid configuration",
                                               "Failed to create authorization header"),
                      "header_error")
            /\ UNCHANGED headers
    /\ UNCHANGED <<config, inBody, inHeaders, upstream, payload, is_stream, calls, response,
                   delivered>>
    /\ UNCHANGED <<caller, conn>>

\* A variant that serializes a payload kept in state shared by the requests.
SendRequestSharedPayload(r) ==
    /\ pc[r] = "built"
    /\ calls' = [calls EXCEPT ![r] =
                    Append(@, [method |-> "POST", url |-> config.model_url,
                               headers |-> headers[r], body |-> to_vec(payload[1])])]
    /\ pc' = [pc EXCEPT ![r] = "sent"]
    /\ trace' = [trace EXCEPT ![r] = Append(@, "send")]
    /\ UNCHANGED <<config, inBody, inHeaders, upstream, payload, is_stream, headers,
                   response, reply, delivered>>
    /\ UNCHANGED <<caller, conn>>

\* A variant that issues the call as soon as the body is parsed.
SendRequestEarly(r) ==
    /\ pc[r] \in {"parsed", "built"}
    /\ calls' = [calls EXCEPT ![r] =
                    Append(@, [method |-> "POST", url |-> config.model_url,
                               headers |-> headers[r], body |-> to_vec(payload[r])])]
    /\ pc' = [pc EXCEPT ![r] = "sent"]
    /\ trace' = [trace EXCEPT ![r] = Append(@, "send")]
    /\ UNCHANGED <<config, inBody, inHeaders, upstream, payload, is_stream, headers,
                   response, reply, delivered>>
    /\ UNCHANGED <<caller, conn>>

\* Lines 196-200: client.post(model_url).headers(headers).json(&payload).send()
SendRequest(r) ==
    /\ pc[r] = "built"
    /\ calls' = [calls EXCEPT ![r] =
                    Append(@, [method |-> "POST", url |-> config.model_url,
                               headers |-> headers[r], body |-> to_vec(payload[r])])]
    /\ pc' = [pc EXCEPT ![r] = "sent"]
    /\ trace' = [trace EXCEPT ![r] = Append(@, "send")]
    /\ UNCHANGED <<config, inBody, inHeaders, upstream, payload, is_stream, headers, response,
                   reply, delivered>>
    /\ UNCHANGED <<caller, conn>>

\* A variant that issues the call a second time before it gives up.
SendFailedRetry(r) ==
    /\ pc[r] = "sent"
    /\ ~upstream[r].ok
    /\ IF Len(calls[r]) < 2
       THEN /\ calls' = [calls EXCEPT ![r] = Append(@, @[1])]
            /\ UNCHANGED <<pc, reply, trace>>
       ELSE /\ Return(r, create_error_response(BAD_GATEWAY, "Failed to forward request",
                                               upstream[r].errmsg),
                      "transport_error")
            /\ UNCHANGED calls
    /\ UNCHANGED <<config, inBody, inHeaders, upstream, payload, is_stream, headers, response,
                   delivered>>
    /\ UNCHANGED <<caller, conn>>

\* Lines 201-211, Err arm: the call failed in transport.
SendFailed(r) ==
    /\ pc[r] = "sent"
    /\ ~upstream[r].ok
    /\ Return(r, create_error_response(BAD_GATEWAY, "Failed to forward request",
                                       upstream[r].errmsg),
              "transport_error")
    /\ UNCHANGED <<config, inBody, inHeaders, upstream, payload, is_stream, headers, calls,
                   response, delivered>>
    /\ UNCHANGED <<caller, conn>>

\* Lines 201-202, Ok arm: the upstream's status line and headers arrived.
SendOk(r) ==
    /\ pc[r] = "sent"
    /\ upstream[r].ok
    /\ response' = [response EXCEPT ![r] =
                      [status |-> upstream[r].status,
                       headers |-> response_headers(upstream[r].wire)]]
    /\ pc' = [pc EXCEPT ![r] = "relay"]
    /\ trace' = [trace EXCEPT ![r] = Append(@, "response")]
    /\ UNCHANGED <<config, inBody, inHeaders, upstream, payload, is_stream, headers, calls,
                   reply, delivered>>
    /\ conn' = [conn EXCEPT ![r] = "open"]
    /\ UNCHANGED caller

\* ---------------------------------------------------------- the dispatch
\* A variant that streams when the upstream declares an event stream.
relay_streams_by_content_type(r) ==
    \E i \in 1..Len(response[r].headers) :
        response[r].headers[i] = <<"content-type", "text/event-stream">>

\* Line 214: if is_stream
relay_streams(r) == is_stream[r]

\* ------------------------------------------------- handle_normal_response
\* Lines 123-148: read the whole body, then answer with the upstream's
\* status, its copied headers and the bytes; a failed read answers 502.
\* A variant that leaves the builder's default status in place.
normal_response_default_status(resp, up) ==
    IF up.fail_at # NoFail
    THEN create_error_response(BAD_GATEWAY, "Failed to read response", up.errmsg)
    ELSE [sent |-> TRUE,
          status |-> 200,
          headers |-> copy_headers(<<>>, resp.headers),
          kind |-> "bytes",
          json |-> NoMembers,
          bytes |-> concat(up.chunks)]

normal_response(resp, up) ==
    IF up.fail_at # NoFail
    THEN create_error_response(BAD_GATEWAY, "Failed to read response", up.errmsg)
    ELSE [sent |-> TRUE,
          status |-> resp.status,
          headers |-> copy_headers(<<>>, resp.headers),
          kind |-> "bytes",
          json |-> NoMembers,
          bytes |-> concat(up.chunks)]

handle_normal_response(r) ==
    /\ pc[r] = "relay"
    /\ ~relay_streams(r)
    /\ Return(r, normal_response(response[r], upstream[r]),
              IF upstream[r].fail_at # NoFail THEN "read_error" ELSE "buffered")
    /\ UNCHANGED <<config, inBody, inHeaders, upstream, payload, is_stream, headers, calls,
                   response, delivered>>
    /\ conn' = [conn EXCEPT ![r] = "released"]
    /\ UNCHANGED caller

\* ---------------------------------------------- handle_streaming_response
\* Lines 107-111: the builder before the copy loop.
streaming_builder ==
    append(append(append(<<>>, "content-type", "text/event-stream"),
                  "cache-control", "no-cache"),
           "connection", "keep-alive")

\* Lines 92-120: the response is returned at once, its body a stream over
\* the upstream's body.
streaming_response(resp) ==
    [sent |-> TRUE,
     status |-> resp.status,
     headers |-> copy_headers(streaming_builder, resp.headers),
     kind |-> "stream",
     json |-> NoMembers,
     bytes |-> <<>>]

handle_streaming_response(r) ==
    /\ pc[r] = "relay"
    /\ relay_streams(r)
    /\ reply' = [reply EXCEPT ![r] = streaming_response(response[r])]
    /\ pc' = [pc EXCEPT ![r] = "streaming"]
    /\ trace' = [trace EXCEPT ![r] = Append(@, "streaming")]
    /\ UNCHANGED <<config, inBody, inHeaders, upstream, payload, is_stream, headers, calls,
                   response, delivered>>
    /\ UNCHANGED <<caller, conn>>

\* A variant that yields the first chunk of the body at every poll.
next_chunk_first(chunks, n) == chunks[1]

\* Lines 95-97: the item after the n already yielded, bytes.to_vec() of it.
next_chunk(chunks, n) == chunks[n + 1]

\* A variant in which a detached task keeps reading the upstream body.
polled_detached(r) == pc[r] = "streaming"

\* Line 105: Body::from_stream is pulled by the caller's connection alone; no
\* task of the handler reads the upstream body on its own.
polled(r) == pc[r] = "streaming" /\ caller[r] = "connected"

\* Lines 95-97: one poll of the body stream yields the next upstream chunk.
StreamChunk(r) ==
    /\ polled(r)
    /\ Len(delivered[r]) < Len(upstream[r].chunks)
    /\ upstream[r].fail_at = NoFail \/ Len(delivered[r]) < upstream[r].fail_at
    /\ delivered' = [delivered EXCEPT ![r] =
                        Append(@, next_chunk(upstream[r].chunks, Len(delivered[r])))]
    /\ UNCHANGED <<config, inBody, inHeaders, upstream, pc, payload, is_stream, headers, calls,
                   response, reply, trace>>
    /\ UNCHANGED <<caller, conn>>

\* The upstream body ended: the stream yields None.
StreamEnd(r) ==
    /\ polled(r)
    /\ upstream[r].fail_at = NoFail
    /\ Len(delivered[r]) = Len(upstream[r].chunks)
    /\ pc' = [pc EXCEPT ![r] = "done"]
    /\ trace' = [trace EXCEPT ![r] = Append(@, "stream_end")]
    /\ UNCHANGED <<config, inBody, inHeaders, upstream, payload, is_stream, headers, calls,
                   response, reply, delivered>>
    /\ conn' = [conn EXCEPT ![r] = "released"]
    /\ UNCHANGED caller

\* A variant that answers a failed read with the 502 error response, as the
\* buffered path does.
StreamErrorAnswered(r) ==
    /\ polled(r)
    /\ upstream[r].fail_at = Len(delivered[r])
    /\ Return(r, create_error_response(BAD_GATEWAY, "Failed to read response",
                                       upstream[r].errmsg),
              "stream_error")
    /\ conn' = [conn EXCEPT ![r] = "released"]
    /\ UNCHANGED <<config, inBody, inHeaders, upstream, payload, is_stream, headers,
                   calls, response, delivered, caller>>

\* Lines 98-101: the read failed; the stream yields the io::Error and ends.
StreamError(r) ==
    /\ polled(r)
    /\ upstream[r].fail_at = Len(delivered[r])
    /\ pc' = [pc EXCEPT ![r] = "done"]
    /\ trace' = [trace EXCEPT ![r] = Append(@, "stream_error")]
    /\ UNCHANGED <<config, inBody, inHeaders, upstream, payload, is_stream, headers, calls,
                   response, reply, delivered>>
    /\ conn' = [conn EXCEPT ![r] = "released"]
    /\ UNCHANGED caller

\* The caller closes its connection while the streamed body is in progress.
CallerDisconnect(r) ==
    /\ pc[r] = "streaming"
    /\ caller[r] = "connected"
    /\ caller' = [caller EXCEPT ![r] = "gone"]
    /\ UNCHANGED <<config, inBody, inHeaders, upstream, pc, payload, is_stream,
                   headers, calls, response, reply, delivered, conn, trace>>

\* Line 105: the body owns the stream and the stream owns the upstream
\* response; the server drops the body of a connection that is gone, and the
\* upstream connection goes with it.
DropBody(r) ==
    /\ pc[r] = "streaming"
    /\ caller[r] = "gone"
    /\ pc' = [pc EXCEPT ![r] = "done"]
    /\ conn' = [conn EXCEPT ![r] = "released"]
    /\ trace' = [trace EXCEPT ![r] = Append(@, "dropped")]
    /\ UNCHANGED <<config, inBody, inHeaders, upstream, payload, is_stream, headers,
                   calls, response, reply, delivered, caller>>

\* ------------------------------------------------------ the specifications
Next ==
    \E r \in Reqs :
        \/ ParseBody(r)
        \/ BuildHeaders(r)
        \/ SendRequest(r)
        \/ SendFailed(r)
        \/ SendOk(r)
        \/ handle_normal_response(r)
        \/ handle_streaming_response(r)
        \/ StreamChunk(r)
        \/ StreamEnd(r)
        \/ StreamError(r)
        \/ CallerDisconnect(r)
        \/ DropBody(r)

Spec == Init /\ [][Next]_vars

SpecRelay == InitRelay /\ [][Next]_vars

SpecStream == InitStream /\ [][Next]_vars

\* The server's connection task is scheduled: a body whose caller is gone is
\* dropped.
SpecStreamFair ==
    InitStream /\ [][Next]_vars /\ \A r \in Reqs : WF_vars(DropBody(r))

SpecPair == InitPair /\ [][Next]_vars

\* ------------------------------------------------------------- the claims
\* What the inputs of request r decide, stated on the inputs alone.
BodyIsJson(r) == inBody[r].json

BodyIsObject(r) == inBody[r].json /\ inBody[r].t = "obj"

KeyEncodable == config.model_key \in {"sk-1"}

StreamIsTrue(r) ==
    /\ BodyIsObject(r)
    /\ "stream" \in KeysOf(inBody[r].pairs)
    /\ LastValue(inBody[r].pairs, "stream") = JTrue

ReadFails(r) == upstream[r].ok /\ upstream[r].fail_at # NoFail

Answered(r, status) ==
    /\ reply[r].sent
    /\ reply[r].kind = "error_json"
    /\ reply[r].status = status

\* C1: every request-scoped failure is answered with an error response whose
\* status is fixed by the failure stage: unparsable body 400, credential not
\* encodable as a header value 500, transport failure of the outbound call
\* 502, failed read of the upstream body in the buffered path 502; a finished
\* request with one of these failures has exactly that response.
C1_StatusByStage ==
    \A r \in Reqs :
        /\ pc[r] = "done" =>
            /\ ~BodyIsJson(r) => Answered(r, 400)
            /\ BodyIsJson(r) /\ ~KeyEncodable => Answered(r, 500)
            /\ BodyIsJson(r) /\ KeyEncodable /\ ~upstream[r].ok => Answered(r, 502)
            /\ BodyIsJson(r) /\ KeyEncodable /\ ReadFails(r) /\ ~StreamIsTrue(r)
                  => Answered(r, 502)
        /\ pc[r] \in {"start", "idle", "done"} \/ BodyIsJson(r)
        /\ pc[r] \in {"start", "idle", "parsed", "done"} \/ KeyEncodable
        /\ pc[r] \in {"start", "idle", "parsed", "built", "sent", "done"}
              \/ upstream[r].ok

C1_Witness ==
    \E r \in Reqs :
        /\ pc[r] = "done"
        /\ BodyIsJson(r) /\ KeyEncodable /\ ReadFails(r) /\ ~StreamIsTrue(r)
        /\ reply[r].status = 502

\* C2 as stated: every error body is {"error": {message, type, code,
\* details}} with code the HTTP status, type the token proxy_error and the
\* variable text in details.
C2_FourFieldShape ==
    \A r \in Reqs :
        reply[r].kind = "error_json" =>
            /\ DOMAIN reply[r].json = {"error"}
            /\ DOMAIN reply[r].json["error"] = {"message", "type", "code", "details"}
            /\ reply[r].json["error"]["code"] = reply[r].status
            /\ reply[r].json["error"]["type"] = "proxy_error"

ErrorTypes ==
    {"Invalid request body", "Invalid configuration", "Failed to forward request",
     "Failed to read response"}

\* C2 amended: every error body is {"error": {type, message}} and nothing
\* else, sent as application/json; type is one of four fixed texts, one per
\* failure stage, never the upstream's or the transport's text; the variable
\* failure text is carried in message.  A refused connection is answered 502
\* with type "Failed to forward request" and message the transport error's
\* text.
C2_TwoFieldShape ==
    \A r \in Reqs :
        reply[r].kind = "error_json" =>
            /\ DOMAIN reply[r].json = {"error"}
            /\ DOMAIN reply[r].json["error"] = {"type", "message"}
            /\ reply[r].json["error"]["type"] \in ErrorTypes
            /\ reply[r].headers = <<<<"content-type", "application/json">>>>
            /\ BodyIsJson(r) /\ KeyEncodable /\ ~upstream[r].ok =>
                  /\ reply[r].status = 502
                  /\ reply[r].json["error"]["type"] = "Failed to forward request"
                  /\ reply[r].json["error"]["message"] = upstream[r].errmsg
            /\ BodyIsJson(r) /\ KeyEncodable /\ upstream[r].ok =>
                  /\ reply[r].json["error"]["type"] = "Failed to read response"
                  /\ reply[r].json["error"]["message"] = upstream[r].errmsg

C2_Witness ==
    \E r \in Reqs :
        /\ reply[r].kind = "error_json"
        /\ ~upstream[r].ok
        /\ upstream[r].errmsg = "connection refused"
        /\ reply[r].json["error"]["message"] = "connection refused"

\* The bodies of the outbound calls request r caused.
Forwarded(r) == {calls[r][i].body : i \in 1..Len(calls[r])}

HasModel(body, model) ==
    /\ body.json
    /\ body.t = "obj"
    /\ "model" \in KeysOf(body.pairs)
    /\ \A i \in 1..Len(body.pairs) :
          body.pairs[i][1] = "model" => body.pairs[i][2] = JStr(model)

\* C3 as stated: every body forwarded upstream has model equal to the
\* configured default_model, whatever the body the caller posted.
C3_ModelAlwaysRewritten ==
    \A r \in Reqs : \A b \in Forwarded(r) : HasModel(b, config.default_model)

\* C4 as stated: a body that is no JSON, or is JSON whose top-level value is
\* no object, is answered 400 with the error body and causes no outbound call.
C4_NonObjectRejected ==
    \A r \in Reqs :
        ~BodyIsObject(r) =>
            /\ pc[r] \in {"idle", "start", "done"}
            /\ calls[r] = <<>>
            /\ pc[r] = "done" => Answered(r, 400)

\* C5: for an object body the forwarded payload holds every key of the
\* original, every key but model with its original value (the last one
\* written, when the text repeats a key), and no key beyond those and model.
C5_OnlyModelChanges ==
    \A r \in Reqs : \A b \in Forwarded(r) :
        BodyIsObject(r) =>
            /\ b.json /\ b.t = "obj"
            /\ KeysOf(b.pairs) = KeysOf(inBody[r].pairs) \cup {"model"}
            /\ \A k \in KeysOf(inBody[r].pairs) \ {"model"} :
                  \A i \in 1..Len(b.pairs) :
                      b.pairs[i][1] = k => b.pairs[i][2] = LastValue(inBody[r].pairs, k)

C5_Witness ==
    \E r \in Reqs : \E b \in Forwarded(r) :
        /\ BodyIsObject(r)
        /\ {"stream", "messages"} \subseteq KeysOf(inBody[r].pairs)
        /\ "model" \notin KeysOf(inBody[r].pairs)
        /\ HasModel(b, config.default_model)

Relayed(r, stage) == \E i \in 1..Len(trace[r]) : trace[r][i] = stage

\* C6: the streaming flag is true exactly when the body's stream member is
\* the JSON boolean true; with stream missing, false or of any other type
\* the flag is false and the response goes through the buffered path.
C6_StreamFlag ==
    \A r \in Reqs :
        /\ pc[r] \notin {"start", "idle"} /\ BodyIsJson(r) =>
              (is_stream[r] <=> StreamIsTrue(r))
        /\ Relayed(r, "streaming") => StreamIsTrue(r)
        /\ ~StreamIsTrue(r) /\ pc[r] = "done" /\ reply[r].kind # "error_json" =>
              /\ Relayed(r, "buffered")
              /\ reply[r].kind = "bytes"
        /\ reply[r].kind = "stream" => StreamIsTrue(r)

C6_Witness ==
    \E r \in Reqs :
        /\ BodyIsObject(r)
        /\ "stream" \in KeysOf(inBody[r].pairs)
        /\ LastValue(inBody[r].pairs, "stream") = JStr("true")
        /\ Relayed(r, "buffered")

\* C7: a request that reaches the forwarding stage causes exactly one POST
\* to the configured model_url, whether the call succeeds or fails; a
\* transport failure is answered 502 with no second call; no request ever
\* causes two calls.
C7_SingleAttempt ==
    \A r \in Reqs :
        /\ Len(calls[r]) <= 1
        /\ pc[r] \in {"sent", "relay", "streaming"} => Len(calls[r]) = 1
        /\ pc[r] \in {"idle", "start", "parsed", "built"} => Len(calls[r]) = 0
        /\ pc[r] = "done" =>
              (Len(calls[r]) = 1 <=> (BodyIsJson(r) /\ KeyEncodable))
        /\ \A i \in 1..Len(calls[r]) :
              calls[r][i].method = "POST" /\ calls[r][i].url = config.model_url
        /\ pc[r] = "done" /\ BodyIsJson(r) /\ KeyEncodable /\ ~upstream[r].ok =>
              Answered(r, 502) /\ Len(calls[r]) = 1

C7_Witness ==
    \E r \in Reqs :
        /\ pc[r] = "done"
        /\ ~upstream[r].ok
        /\ Len(calls[r]) = 1
        /\ reply[r].status = 502

\* How often a header line occurs in a reply, and how often the upstream
\* sent it under any spelling of its name.
Count(hs, name, value) ==
    Cardinality({i \in 1..Len(hs) : hs[i][1] = name /\ hs[i][2] = value})

WireCount(wire, name, value) ==
    Cardinality({i \in 1..Len(wire) : as_str(wire[i][1]) = name /\ wire[i][2] = value})

Named(hs, name) == {i \in 1..Len(hs) : hs[i][1] = name}

HopByHop == {"transfer-encoding", "connection"}

RECURSIVE BytesBefore(_, _)
BytesBefore(chunks, k) ==
    IF k = 0 THEN 0 ELSE BytesBefore(chunks, k - 1) + Len(chunks[k])

BufferedOk(r) ==
    /\ pc[r] = "done"
    /\ BodyIsJson(r) /\ KeyEncodable
    /\ upstream[r].ok /\ upstream[r].fail_at = NoFail
    /\ ~StreamIsTrue(r)

\* C8: in the buffered path, when the upstream body is read completely, the
\* reply has the upstream's status (4xx and 5xx too), the upstream's body
\* bytes, and exactly the upstream's header lines except Transfer-Encoding
\* and Connection: none added, changed or dropped.
C8_BufferedMirror ==
    \A r \in Reqs :
        BufferedOk(r) =>
            /\ reply[r].kind = "bytes"
            /\ reply[r].status = upstream[r].status
            /\ Len(reply[r].bytes) = BytesBefore(upstream[r].chunks, Len(upstream[r].chunks))
            /\ \A k \in 1..Len(upstream[r].chunks) :
                  \A j \in 1..Len(upstream[r].chunks[k]) :
                      reply[r].bytes[BytesBefore(upstream[r].chunks, k - 1) + j]
                          = upstream[r].chunks[k][j]
            /\ \A i \in 1..Len(reply[r].headers) :
                  /\ reply[r].headers[i][1] \notin HopByHop
                  /\ Count(reply[r].headers, reply[r].headers[i][1], reply[r].headers[i][2])
                        = WireCount(upstream[r].wire, reply[r].headers[i][1],
                                    reply[r].headers[i][2])
            /\ \A i \in 1..Len(upstream[r].wire) :
                  as_str(upstream[r].wire[i][1]) \notin HopByHop =>
                      Count(reply[r].headers, as_str(upstream[r].wire[i][1]),
                            upstream[r].wire[i][2])
                          = WireCount(upstream[r].wire, as_str(upstream[r].wire[i][1]),
                                      upstream[r].wire[i][2])

C8_Witness ==
    \E r \in Reqs :
        /\ BufferedOk(r)
        /\ upstream[r].status = 500
        /\ upstream[r].chunks = <<Chunk1, Chunk2>>
        /\ upstream[r].wire = <<<<"X-Request-Id", "abc">>, <<"Connection", "close">>,
                                <<"Content-Type", "application/json">>>>
        /\ Len(reply[r].headers) = 2

\* C9: no Transfer-Encoding or Connection line of the upstream, under any
\* spelling of the name, is copied into a reply (the one Connection line of a
\* streaming reply is the proxy's own keep-alive), and every other line of
\* the upstream is copied into the reply either relay path builds from the
\* upstream's response.
C9_HopByHopDropped ==
    \A r \in Reqs :
        /\ Named(reply[r].headers, "transfer-encoding") = {}
        /\ \A i \in 1..Len(reply[r].headers) :
              reply[r].headers[i][1] \notin
                  {"Transfer-Encoding", "TRANSFER-ENCODING", "Connection"}
        /\ reply[r].kind # "stream" => Named(reply[r].headers, "connection") = {}
        /\ reply[r].kind = "stream" =>
              /\ Cardinality(Named(reply[r].headers, "connection")) = 1
              /\ Count(reply[r].headers, "connection", "keep-alive") = 1
        /\ reply[r].kind \in {"bytes", "stream"} =>
              \A i \in 1..Len(upstream[r].wire) :
                  as_str(upstream[r].wire[i][1]) \notin HopByHop =>
                      Count(reply[r].headers, as_str(upstream[r].wire[i][1]),
                            upstream[r].wire[i][2])
                          >= WireCount(upstream[r].wire, as_str(upstream[r].wire[i][1]),
                                       upstream[r].wire[i][2])

C9_Witness ==
    \E r \in Reqs :
        /\ reply[r].kind = "stream"
        /\ upstream[r].wire = <<<<"TRANSFER-ENCODING", "gzip">>, <<"Connection", "close">>,
                                <<"X-Request-Id", "abc">>>>
        /\ Count(reply[r].headers, "x-request-id", "abc") = 1

\* C10 as stated: a streaming reply has Content-Type text/event-stream and no
\* other Content-Type, whatever the upstream sent, and carries Cache-Control:
\* no-cache and Connection: keep-alive.
C10_EventStreamOnly ==
    \A r \in Reqs :
        reply[r].kind = "stream" =>
            /\ \A i \in Named(reply[r].headers, "content-type") :
                  reply[r].headers[i][2] = "text/event-stream"
            /\ Cardinality(Named(reply[r].headers, "content-type")) = 1
            /\ Count(reply[r].headers, "cache-control", "no-cache") = 1
            /\ Count(reply[r].headers, "connection", "keep-alive") = 1

IsPrefix(a, b) == Len(a) <= Len(b) /\ \A i \in 1..Len(a) : a[i] = b[i]

\* C11: in the streaming path the caller receives the upstream's chunks one
\* for one, same bytes, same order; when the upstream body delivered N chunks
\* and closed without error the caller has received exactly those N chunks
\* and the outbound stream has ended.
C11_ChunksOneForOne ==
    \A r \in Reqs :
        /\ IsPrefix(delivered[r], upstream[r].chunks)
        /\ Relayed(r, "stream_end") =>
              /\ upstream[r].fail_at = NoFail
              /\ Len(delivered[r]) = Len(upstream[r].chunks)
              /\ \A i \in 1..Len(upstream[r].chunks) :
                    delivered[r][i] = upstream[r].chunks[i]
              /\ pc[r] = "done"
        /\ reply[r].kind # "stream" => delivered[r] = <<>>

C11_Witness ==
    \E r \in Reqs :
        /\ Relayed(r, "stream_end")
        /\ upstream[r].chunks = <<Chunk1, Chunk2, Chunk1>>
        /\ delivered[r] = <<Chunk1, Chunk2, Chunk1>>

\* The content types a reply declares, and those the upstream declared.
Declared(r) ==
    {reply[r].headers[i][2] : i \in Named(reply[r].headers, "content-type")}

UpstreamDeclared(r) ==
    {upstream[r].wire[i][2] :
        i \in {j \in 1..Len(upstream[r].wire) :
                  as_str(upstream[r].wire[j][1]) = "content-type"}}

\* C12 as stated: every reply is exactly one of a JSON error object, a
\* buffered JSON object, or a text/event-stream byte sequence, never a
\* mixture: no reply declares two content types, a reply declared
\* text/event-stream does not carry a body the upstream declared as plain
\* JSON, and a buffered reply is not declared as anything but JSON, whatever
\* the upstream answers.
C12_ThreeKinds ==
    \A r \in Reqs :
        reply[r].sent =>
            /\ Cardinality(Declared(r)) <= 1
            /\ reply[r].kind = "error_json" => Declared(r) = {"application/json"}
            /\ reply[r].kind = "bytes" => Declared(r) \subseteq {"application/json"}
            /\ reply[r].kind = "stream" =>
                  /\ Declared(r) = {"text/event-stream"}
                  /\ UpstreamDeclared(r) \subseteq {"text/event-stream"}

\* C13: every outbound request carries exactly Content-Type: application/json
\* and Authorization: Bearer <model_key> from the configuration and no header
\* line of the caller; building the headers fails only when model_key cannot
\* be encoded as a header value, and then the caller gets 500 and no outbound
\* call is made.
C13_OutboundHeaders ==
    \A r \in Reqs :
        /\ \A i \in 1..Len(calls[r]) :
              /\ Len(calls[r][i].headers) = 2
              /\ Count(calls[r][i].headers, "content-type", "application/json") = 1
              /\ Count(calls[r][i].headers, "authorization",
                       "Bearer " \o config.model_key) = 1
              /\ \A j \in 1..Len(inHeaders[r]) :
                    Count(calls[r][i].headers, as_str(inHeaders[r][j][1]),
                          inHeaders[r][j][2]) = 0
        /\ Relayed(r, "header_error") =>
              ~KeyEncodable /\ Answered(r, 500) /\ calls[r] = <<>>
        /\ ~KeyEncodable => calls[r] = <<>>
        /\ KeyEncodable /\ BodyIsJson(r) /\ pc[r] = "done" => Len(calls[r]) = 1

C13_Witness ==
    \E r \in Reqs :
        /\ Len(inHeaders[r]) = 2
        /\ inHeaders[r][1] = <<"Authorization", "Bearer caller-key">>
        /\ Len(calls[r]) = 1
        /\ Count(calls[r][1].headers, "authorization", "Bearer sk-1") = 1

\* The orders in which a request may pass the stages.
StageOrders ==
    {<<"parse_error">>,
     <<"parsed", "header_error">>,
     <<"parsed", "headers", "send", "transport_error">>,
     <<"parsed", "headers", "send", "response", "buffered">>,
     <<"parsed", "headers", "send", "response", "read_error">>}
        \cup {<<"parsed", "headers", "send", "response", "streaming", e>> :
                e \in {"stream_end", "stream_error", "dropped"}}

\* C14: within one request the stages run in a fixed order and a failing
\* stage ends the request: the outbound headers are complete before the call
\* is issued, the call is answered before either relay path is entered, a
\* parse or header failure is answered without any outbound call, and a
\* transport failure is answered without entering a relay path.
C14_StageOrder ==
    \A r \in Reqs :
        /\ \E o \in StageOrders : IsPrefix(trace[r], o)
        /\ \A i \in 1..Len(calls[r]) :
              /\ Len(headers[r]) = 2
              /\ calls[r][i].headers = headers[r]
        /\ reply[r].kind \in {"bytes", "stream"} =>
              /\ Len(calls[r]) = 1
              /\ upstream[r].ok
              /\ response[r].status = upstream[r].status
        /\ Relayed(r, "parse_error") \/ Relayed(r, "header_error") =>
              /\ calls[r] = <<>>
              /\ reply[r].kind = "error_json"
              /\ pc[r] = "done"
        /\ Relayed(r, "transport_error") =>
              /\ response[r] = NoResponse
              /\ reply[r].kind = "error_json"
              /\ delivered[r] = <<>>
              /\ pc[r] = "done"

C14_Witness ==
    \E r \in Reqs :
        trace[r] = <<"parsed", "headers", "send", "response", "streaming", "stream_end">>

\* The relay path request r took, once it took one.
Path(r) ==
    IF Relayed(r, "streaming") THEN "streaming"
    ELSE IF Relayed(r, "buffered") \/ Relayed(r, "read_error") THEN "buffered"
    ELSE "none"

\* C15: the relay path is decided by the stream flag of the inbound body
\* alone: of two requests that were relayed, those with the same flag took
\* the same path whatever their upstreams answered, and those with different
\* flags took different paths even against the same upstream answer.
C15_PathByFlagOnly ==
    \A r1 \in Reqs : \A r2 \in Reqs :
        Path(r1) # "none" /\ Path(r2) # "none" =>
            /\ (StreamIsTrue(r1) <=> StreamIsTrue(r2)) <=> (Path(r1) = Path(r2))
            /\ Path(r1) = "streaming" <=> StreamIsTrue(r1)

C15_Witness ==
    \E r1 \in Reqs : \E r2 \in Reqs :
        /\ upstream[r1] = upstream[r2]
        /\ upstream[r1].ok /\ upstream[r1].status = 500
        /\ StreamIsTrue(r1) /\ ~StreamIsTrue(r2)
        /\ Path(r1) = "streaming" /\ Path(r2) = "buffered"

\* C16: in the streaming path a read error after k chunks ends the outbound
\* stream there: the caller has received exactly those k chunks in order and
\* nothing after them, no JSON error body, and the reply keeps the upstream's
\* status and its text/event-stream declaration.
C16_TruncatedStream ==
    \A r \in Reqs :
        Relayed(r, "stream_error") =>
            /\ upstream[r].fail_at # NoFail
            /\ Len(delivered[r]) = upstream[r].fail_at
            /\ \A i \in 1..Len(delivered[r]) : delivered[r][i] = upstream[r].chunks[i]
            /\ reply[r].kind = "stream"
            /\ reply[r].json = NoMembers
            /\ reply[r].status = upstream[r].status
            /\ "text/event-stream" \in Declared(r)
            /\ pc[r] = "done"

C16_Witness ==
    \E r \in Reqs :
        /\ Relayed(r, "stream_error")
        /\ upstream[r].chunks = <<Chunk1, Chunk2, Chunk1>>
        /\ upstream[r].fail_at = 2
        /\ upstream[r].status = 200
        /\ delivered[r] = <<Chunk1, Chunk2>>

\* C17: once the caller has disconnected from a streaming reply no further
\* chunk is pulled from the upstream body or forwarded, and the upstream
\* connection is eventually released.
C17_CancelStops ==
    /\ [][\A r \in Reqs : caller[r] = "gone" => delivered'[r] = delivered[r]]_vars
    /\ \A r \in Reqs : (caller[r] = "gone") ~> (conn[r] = "released")

C17_Witness ==
    \E r \in Reqs :
        /\ caller[r] = "gone"
        /\ conn[r] = "released"
        /\ delivered[r] = <<Chunk1>>
        /\ upstream[r].chunks = <<Chunk1, Chunk2, Chunk1>>
        /\ upstream[r].fail_at = NoFail

\* Everything the model holds for request r.
Mine(r) ==
    <<inBody[r], inHeaders[r], upstream[r], pc[r], payload[r], is_stream[r],
      headers[r], calls[r], response[r], reply[r], delivered[r], caller[r],
      conn[r], trace[r]>>

\* What request r forwards and is answered when it is handled alone, from
\* its own inputs.
AloneBody(r) == to_vec(insert_model(from_slice(inBody[r]), config.default_model))

AloneResponse(r) ==
    [status |-> upstream[r].status, headers |-> response_headers(upstream[r].wire)]

AloneReply(r) ==
    IF ~BodyIsJson(r)
    THEN create_error_response(BAD_REQUEST, "Invalid request body",
                               "Could not parse request body as JSON")
    ELSE IF ~KeyEncodable
    THEN create_error_response(INTERNAL_SERVER_ERROR, "Invalid configuration",
                               "Failed to create authorization header")
    ELSE IF ~upstream[r].ok
    THEN create_error_response(BAD_GATEWAY, "Failed to forward request",
                               upstream[r].errmsg)
    ELSE IF StreamIsTrue(r)
    THEN streaming_response(AloneResponse(r))
    ELSE normal_response(AloneResponse(r), upstream[r])

AlonePath(r) ==
    IF ~(BodyIsJson(r) /\ KeyEncodable /\ upstream[r].ok) THEN "none"
    ELSE IF StreamIsTrue(r) THEN "streaming"
    ELSE "buffered"

\* C18: requests in flight at once do not interfere: every step belongs to
\* one request and leaves every other request and the configuration as they
\* were, and under every interleaving a request forwards the body, takes the
\* relay path and is answered the reply it would alone.
C18_NoInterference ==
    /\ [][/\ config' = config
          /\ \A r1 \in Reqs : \A r2 \in Reqs :
                r1 # r2 => (Mine(r1)' = Mine(r1) \/ Mine(r2)' = Mine(r2))]_vars
    /\ [](\A r \in Reqs :
            /\ \A i \in 1..Len(calls[r]) : calls[r][i].body = AloneBody(r)
            /\ reply[r].sent => reply[r] = AloneReply(r)
            /\ pc[r] = "done" => reply[r].sent /\ Path(r) = AlonePath(r)
            /\ IsPrefix(delivered[r], upstream[r].chunks))

C18_Witness ==
    \E r1 \in Reqs : \E r2 \in Reqs :
        /\ pc[r1] = "streaming" /\ delivered[r1] = <<Chunk1>>
        /\ pc[r2] = "done" /\ Path(r2) = "buffered"
        /\ inBody[r1] # inBody[r2]
        /\ upstream[r1] # upstream[r2]
        /\ calls[r1][1].body # calls[r2][1].body

====
